---- MODULE Spec2Model ----
(***************************************************************************)
(* The print queue of src/queue_simulator: PrintQueueManager               *)
(* (print_queue.py) driven by several threads, and the driver's 'print'    *)
(* event (simulator.py, PrintSimulator._handle_print).                     *)
(*                                                                         *)
(* The threads call a small manager freely, within a budget of calls; or   *)
(* one thread runs run_simulation on the test suite's manager and events.  *)
(*                                                                         *)
(* A thread is not started ("unstarted"), outside every call ("idle"), or  *)
(* inside one:                                                             *)
(*   wait_api / wait_print    suspended in condition.wait() of dequeue_job *)
(*   woken_api / woken_print  notified, re-acquiring the lock              *)
(*   print_got                _handle_print holds the job dequeue returned *)
(*   tick_aging / tick_expire inside tick(), holding the lock, at the call *)
(*                            of apply_priority_aging / remove_expired_jobs*)
(*   batch / batch_append                                                  *)
(*                            inside handle_simultaneous_submissions       *)
(* A with-block that never waits inside is one atomic step, enabled when   *)
(* the lock is free: threading.Lock is not reentrant, so a thread that     *)
(* holds the lock cannot enter a with-block on it either.                  *)
(*                                                                         *)
(* The circular-queue variant, src/PrintQueueManager.py, is a second       *)
(* program with a state of its own: it is driven by one caller, call after *)
(* call (VariantSpec), and the manager above never touches it.             *)
(***************************************************************************)
EXTENDS Integers, Sequences, FiniteSets, TLC

\* ------------------------------------------------------ configuration
\* PrintQueueManager(capacity, aging_interval, expiry_time): the arguments
\* the manager is built with. BaseConfig is a small manager the threads
\* call freely; TestConfig is the one TestPrintSimulator.setUp builds, on
\* which run_simulation runs sample_events.
BaseConfig == [capacity |-> 2, aging_interval |-> 1, expiry_time |-> 0]

TestConfig == [capacity |-> 5, aging_interval |-> 3, expiry_time |-> 10]

sample_events ==
    << [type |-> "enqueue", user_id |-> "user1", job_id |-> "doc1", priority |-> 2],
       [type |-> "enqueue", user_id |-> "user2", job_id |-> "doc2", priority |-> 1],
       [type |-> "tick", ticks |-> 2],
       [type |-> "print"],
       [type |-> "batch_submit",
        jobs |-> << [user_id |-> "user3", job_id |-> "doc3", priority |-> 3],
                    [user_id |-> "user4", job_id |-> "doc4", priority |-> 0] >>],
       [type |-> "tick", ticks |-> 5],
       [type |-> "print"] >>

\* ------------------------------------------------------------- bounds
MaxPriority == 1
MaxCalls == 4
MaxBatch == 2
MaxJobs == 4
MaxTime == 3

Threads == {"t1", "t2"}

\* The thread that runs run_simulation.
SimThread == "t1"
NoOwner == "unlocked"
JobIds == {"doc1", "doc2"}
UserIds == {"user1"}
Priorities == 0..MaxPriority
NoneId == "None"

VARIABLES
    config,          \* self.capacity, self.aging_interval, self.expiry_time
    events,          \* run_simulation: the events not yet handled
    queue,           \* self.queue: sequence of PrintJob records
    history,         \* self.history: sequence of log entries
    lock,            \* self.lock: NoOwner, or the thread that holds it
    _shutdown,       \* self._shutdown
    current_time,    \* self.current_time
    wall_clock,      \* time.time(), read by PrintJob's timestamp default
    pc,              \* where each thread is
    ret,             \* what each thread's last call that returns a value returned
    jobs,            \* handle_simultaneous_submissions: entries not yet tried
    results,         \* handle_simultaneous_submissions: its results dict
    entry,           \* _log_event called by the batch: the entry being built
    submitted,       \* handle_simultaneous_submissions: the call as it was made
    calls,           \* calls made so far (bounds the run)
    \* src/PrintQueueManager.py, the circular-queue variant (one caller):
    circular,        \* self.queue: the CircularQueue (capacity, slots, front, rear)
    job_objects,     \* the PrintJob objects the slots refer to, by job number
    time_elapsed,    \* self.time_elapsed
    job_counter,     \* self.job_counter
    variant_ret      \* what the variant's last call returned

manager_vars == <<config, events, queue, history, lock, _shutdown, current_time, wall_clock, pc, ret,
                  jobs, results, entry, submitted, calls>>

variant_vars == <<circular, job_objects, time_elapsed, job_counter, variant_ret>>

vars == <<manager_vars, variant_vars>>

capacity == config.capacity

aging_interval == config.aging_interval

expiry_time == config.expiry_time

\* ------------------------------------------------------------- PrintJob
\* Mutant of PrintJob: a new job that has already waited one tick.
PrintJob_has_waited(priority, timestamp, user_id, job_id) ==
    [priority |-> priority, timestamp |-> timestamp, waiting_time |-> 1,
     user_id |-> user_id, job_id |-> job_id, status |-> "Pending"]

PrintJob(priority, timestamp, user_id, job_id) ==
    [priority |-> priority, timestamp |-> timestamp, waiting_time |-> 0,
     user_id |-> user_id, job_id |-> job_id, status |-> "Pending"]

\* PrintJob.__str__: the job id, user, priority, waiting time and status
\* (the timestamp is not part of the description).
JobStr(j) ==
    [job_id |-> j.job_id, user_id |-> j.user_id, priority |-> j.priority,
     waiting_time |-> j.waiting_time, status |-> j.status]

JobSpecs == [user_id : UserIds, job_id : JobIds, priority : Priorities]

\* What enqueue_job can be called with: nothing stops a caller from passing
\* a negative priority.
InvalidPriorities == {-1}

EnqueueSpecs ==
    [user_id : UserIds, job_id : JobIds, priority : Priorities \cup InvalidPriorities]

\* The keys of a job dict that enqueue_job is called with.
JobArgs(e) == [user_id |-> e.user_id, job_id |-> e.job_id, priority |-> e.priority]

\* The lists of n job dicts a batch can be.
Batches(n) == [1..n -> JobSpecs]

MapSeq(s, Op(_)) == [i \in 1..Len(s) |-> Op(s[i])]

\* --------------------------------------------------- queue predicates
is_empty(q) == Len(q) = 0

\* Mutants of is_full: the bound off by one, and the check left out.
is_full_off_by_one(q) == Len(q) > capacity

is_full_never(q) == FALSE

is_full(q) == Len(q) >= capacity

\* ---------------------------------------------------------- _sort_queue
\* list.sort(key=(priority, waiting_time)): ascending in both, and stable.
KeyLE(a, b) ==
    \/ a.priority < b.priority
    \/ a.priority = b.priority /\ a.waiting_time <= b.waiting_time

RECURSIVE InsertSorted(_, _)
InsertSorted(x, s) ==
    IF s = <<>> THEN <<x>>
    ELSE IF KeyLE(Head(s), x) THEN <<Head(s)>> \o InsertSorted(x, Tail(s))
    ELSE <<x>> \o s

\* Mutant of _sort_queue: the list left as it is.
unsorted(q) == q

RECURSIVE _sort_queue(_)
_sort_queue(q) ==
    IF q = <<>> THEN <<>>
    ELSE InsertSorted(q[Len(q)], _sort_queue(SubSeq(q, 1, Len(q) - 1)))

\* ----------------------------------------------------------- _log_event
\* The entry _log_event builds from the clock and the queue it reads;
\* entry.update(extra_data) lets the extra keys win.
LogEntry(event_type, job_id, q, extra_data) ==
    extra_data @@
    [timestamp |-> current_time, event |-> event_type, job_id |-> job_id,
     queue_size |-> Len(q), queue_state |-> MapSeq(q, JobStr)]

NoExtra == <<>>

\* Mutant of _log_event: the entry is put at the front of the log.
_log_event_in_front(h, event_type, job_id, q, extra_data) ==
    <<LogEntry(event_type, job_id, q, extra_data)>> \o h

_log_event(h, event_type, job_id, q, extra_data) ==
    Append(h, LogEntry(event_type, job_id, q, extra_data))

\* condition.notify_all(): every thread suspended in wait() is woken and
\* has to re-acquire the lock.
notify_all(p) ==
    [u \in Threads |->
        IF p[u] = "wait_api" THEN "woken_api"
        ELSE IF p[u] = "wait_print" THEN "woken_print"
        ELSE p[u]]

\* ------------------------------- src/PrintQueueManager.py: CircularQueue
\* PrintQueueManager(capacity, aging_interval, expiry_time) of the variant.
VariantConfig == [capacity |-> 3, aging_interval |-> 2, expiry_time |-> 3]

\* class Priority(Enum): the jobs carry the value.
Priority == [LOW |-> 1, MEDIUM |-> 2, HIGH |-> 3]

\* None in a slot. A job in a slot is a reference: the number n of the
\* object whose job_id is "job-n".
Empty == -1

\* Python index i of self.queue is index i + 1 of the sequence.
CircularQueue(cap) ==
    [capacity |-> cap, queue |-> [i \in 1..cap |-> Empty], front |-> -1, rear |-> -1]

CircularQueue_is_empty(q) == q.front = -1

CircularQueue_is_full(q) == (q.rear + 1) % q.capacity = q.front

\* raised: QueueFullException.
CircularQueue_enqueue(q, job) ==
    IF CircularQueue_is_full(q) THEN [raised |-> TRUE, q |-> q]
    ELSE IF CircularQueue_is_empty(q)
         THEN [raised |-> FALSE,
               q |-> [q EXCEPT !.front = 0, !.rear = 0, !.queue[1] = job]]
         ELSE LET rear == (q.rear + 1) % q.capacity
              IN [raised |-> FALSE,
                  q |-> [q EXCEPT !.rear = rear, !.queue[rear + 1] = job]]

\* The slot that is left keeps its reference.
CircularQueue_dequeue(q) ==
    IF CircularQueue_is_empty(q) THEN [job |-> Empty, q |-> q]
    ELSE [job |-> q.queue[q.front + 1],
          q |-> IF q.front = q.rear
                THEN [q EXCEPT !.front = -1, !.rear = -1]
                ELSE [q EXCEPT !.front = (q.front + 1) % q.capacity]]

CircularQueue_status(q) ==
    IF CircularQueue_is_empty(q) THEN <<>>
    ELSE IF q.front <= q.rear
         THEN SubSeq(q.queue, q.front + 1, q.rear + 1)
         ELSE SubSeq(q.queue, q.front + 1, q.capacity) \o SubSeq(q.queue, 1, q.rear + 1)

\* ------------------------------------------------------------- Init
NoReturn == [op |-> "none"]

\* No batch in progress.
NoSubmission == [jobs |-> <<>>, queue |-> <<>>, alone |-> TRUE]

Init ==
    /\ \/ /\ config = BaseConfig
          /\ events = <<>>
          /\ pc = [t \in Threads |-> "idle"]
       \/ /\ config = TestConfig
          /\ events = sample_events
          /\ pc = [t \in Threads |-> IF t = SimThread THEN "idle" ELSE "unstarted"]
    /\ queue = <<>>
    /\ history = <<>>
    /\ lock = NoOwner
    /\ _shutdown = FALSE
    /\ current_time = 0
    /\ wall_clock = 0
    /\ ret = [t \in Threads |-> NoReturn]
    /\ jobs = [t \in Threads |-> <<>>]
    /\ results = [t \in Threads |-> [success |-> 0, failed |-> 0]]
    /\ entry = [t \in Threads |-> NoReturn]
    /\ submitted = [t \in Threads |-> NoSubmission]
    /\ calls = 0
    /\ circular = CircularQueue(VariantConfig.capacity)
    /\ job_objects = <<>>
    /\ time_elapsed = 0
    /\ job_counter = 0
    /\ variant_ret = NoReturn

\* ---------------------------------------------------------- run_simulation
\* Thread t is inside run_simulation: its calls are those of the events,
\* one after the other. (After each event run_simulation prints
\* show_status(detailed=True), which changes nothing.)
Driven(t) == t = SimThread /\ events # <<>>

\* _handle_event: the kind of call the next event makes; a thread that is
\* not running a simulation calls what it likes.
MayCall(t, type) == Driven(t) => Head(events).type = type

\* The event has been handled.
Handled(t) == events' = IF Driven(t) THEN Tail(events) ELSE events

\* _handle_tick: one of the event's ticks has returned.
TickHandled(t) ==
    events' = IF ~Driven(t) THEN events
              ELSE IF Head(events).ticks > 1
              THEN <<[Head(events) EXCEPT !.ticks = @ - 1]>> \o Tail(events)
              ELSE Tail(events)

\* The run's budget of calls: n more calls are made. The events of a
\* simulation are their own bound.
Spend(t, n) ==
    IF Driven(t) THEN UNCHANGED calls
    ELSE calls + n <= MaxCalls /\ calls' = calls + n

\* A thread outside every call makes a new one, while the run's budget lasts.
Calling(t) ==
    /\ pc[t] = "idle"
    /\ Spend(t, 1)

InBatch(u) == pc[u] \in {"batch", "batch_append"}

\* What a step of thread t leaves on record about the batches in progress:
\* the jobs list handle_simultaneous_submissions was called with and the
\* queue it found, until the call returns, and whether any other thread has
\* changed the queue since the call was made.
Observe(t) ==
    submitted' =
        [u \in Threads |->
            IF u = t
            THEN IF pc[t] = "idle" /\ pc'[t] = "batch"
                 THEN [jobs |-> jobs'[t], queue |-> queue, alone |-> TRUE]
                 ELSE IF pc'[t] = "idle" THEN NoSubmission
                 ELSE submitted[t]
            ELSE IF InBatch(u) /\ queue' # queue
                 THEN [submitted[u] EXCEPT !.alone = FALSE]
                 ELSE submitted[u]]

\* ------------------------------------------------------------ enqueue_job
\* The with-block of enqueue_job: `result` is what it returns. A rejected
\* enqueue changes nothing and notifies nobody.
enqueue_body(user_id, job_id, priority, result) ==
    /\ lock = NoOwner
    /\ IF is_full(queue)
       THEN /\ result = FALSE
            /\ UNCHANGED <<queue, history, wall_clock>>
       ELSE /\ result = TRUE
            /\ wall_clock' = wall_clock + 1
            /\ LET new_job == PrintJob(priority, wall_clock', user_id, job_id)
                   sorted == _sort_queue(Append(queue, new_job))
               IN /\ queue' = sorted
                  /\ history' = _log_event(history, "enqueue", job_id, sorted, NoExtra)

\* _handle_enqueue passes the event's user_id, job_id and priority on.
EnqueueInputs(t) ==
    IF Driven(t) THEN {JobArgs(Head(events))} ELSE EnqueueSpecs

enqueue_job(t) ==
    /\ Calling(t)
    /\ MayCall(t, "enqueue")
    /\ \E spec \in EnqueueInputs(t), result \in BOOLEAN :
          /\ enqueue_body(spec.user_id, spec.job_id, spec.priority, result)
          /\ ret' = [ret EXCEPT ![t] = [op |-> "enqueue_job", value |-> result]]
          /\ pc' = IF result THEN notify_all(pc) ELSE pc
    /\ UNCHANGED <<lock, _shutdown, current_time, jobs, results, entry>>
    /\ Observe(t)
    /\ UNCHANGED variant_vars
    /\ Handled(t)
    /\ UNCHANGED config

\* ------------------------------------------------------------ dequeue_job
\* self.queue.pop(0): the head of the list, and the list without it.
\* Mutant of pop: pop() for pop(0), the last job instead of the first.
pop_last(q) == [job |-> q[Len(q)], rest |-> SubSeq(q, 1, Len(q) - 1)]

\* Mutant of pop: the job is read and left in the list.
pop_keeps_job(q) == [job |-> Head(q), rest |-> q]

pop(q) == [job |-> Head(q), rest |-> Tail(q)]

\* One pass from acquiring the lock (on entry, or when woken in wait()) to
\* either suspending in condition.wait() or returning. `via` tells a direct
\* call from the driver's _handle_print, which completes the job it gets.
dequeue_job(t) ==
    /\ pc[t] \in {"idle", "woken_api", "woken_print"}
    /\ IF pc[t] = "idle" THEN Spend(t, 1) ELSE UNCHANGED calls
    /\ lock = NoOwner
    /\ MayCall(t, "print")
    /\ \E via \in {"api", "print"} :
          /\ Driven(t) => via = "print"
          /\ pc[t] = "woken_api" => via = "api"
          /\ pc[t] = "woken_print" => via = "print"
          /\ IF ~_shutdown /\ is_empty(queue)
             THEN /\ pc' = [pc EXCEPT ![t] = IF via = "api" THEN "wait_api" ELSE "wait_print"]
                  /\ UNCHANGED <<queue, history, ret, events>>
             ELSE IF _shutdown \/ is_empty(queue)
             THEN /\ pc' = [pc EXCEPT ![t] = "idle"]
                  /\ ret' = [ret EXCEPT ![t] = [op |-> "dequeue_job", value |-> <<>>]]
                  /\ UNCHANGED <<queue, history>>
                  /\ Handled(t)
             ELSE LET job == [pop(queue).job EXCEPT !.status = "Printing"]
                      rest == pop(queue).rest
                  IN /\ queue' = rest
                     /\ history' = _log_event(history, "dequeue", job.job_id, rest, NoExtra)
                     /\ ret' = [ret EXCEPT ![t] = [op |-> "dequeue_job", value |-> <<job>>]]
                     /\ pc' = [pc EXCEPT ![t] = IF via = "api" THEN "idle" ELSE "print_got"]
                     /\ UNCHANGED events
    /\ UNCHANGED <<lock, _shutdown, current_time, wall_clock, jobs, results, entry>>
    /\ Observe(t)
    /\ UNCHANGED variant_vars
    /\ UNCHANGED config

\* Mutant of _handle_print: the job is marked Pending again.
_handle_print_resets(t) ==
    /\ pc[t] = "print_got"
    /\ ret' = [ret EXCEPT ![t].value[1].status = "Pending"]
    /\ pc' = [pc EXCEPT ![t] = "idle"]
    /\ UNCHANGED <<queue, history, lock, _shutdown, current_time, wall_clock,
                   jobs, results, entry, calls>>
    /\ Observe(t)
    /\ UNCHANGED variant_vars
    /\ Handled(t)
    /\ UNCHANGED config

\* _handle_print after dequeue_job returned a job: job.status = COMPLETED.
_handle_print(t) ==
    /\ pc[t] = "print_got"
    /\ ret' = [ret EXCEPT ![t].value[1].status = "Completed"]
    /\ pc' = [pc EXCEPT ![t] = "idle"]
    /\ UNCHANGED <<queue, history, lock, _shutdown, current_time, wall_clock,
                   jobs, results, entry, calls>>
    /\ Observe(t)
    /\ UNCHANGED variant_vars
    /\ Handled(t)
    /\ UNCHANGED config

\* ------------------------------------------------------------------ tick
\* tick() takes the lock, advances the clock and every queued job's
\* waiting_time, and goes on, still holding the lock, to the call of
\* apply_priority_aging (when the clock is a multiple of aging_interval) or
\* of remove_expired_jobs.
tick(t) ==
    /\ Calling(t)
    /\ MayCall(t, "tick")
    /\ lock = NoOwner
    /\ lock' = t
    /\ current_time' = current_time + 1
    /\ queue' = [i \in 1..Len(queue) |->
                    [queue[i] EXCEPT !.waiting_time = queue[i].waiting_time + 1]]
    /\ pc' = [pc EXCEPT ![t] = IF current_time' % aging_interval = 0
                                THEN "tick_aging" ELSE "tick_expire"]
    /\ UNCHANGED <<history, _shutdown, wall_clock, ret, jobs, results, entry>>
    /\ Observe(t)
    /\ UNCHANGED variant_vars
    /\ UNCHANGED <<config, events>>

\* --------------------------------------------------- apply_priority_aging
\* Mutant of AgeJob: the step down without the floor.
AgeJob_unfloored(j) ==
    IF j.waiting_time % aging_interval = 0
    THEN [j EXCEPT !.priority = j.priority - 1]
    ELSE j

AgeJob(j) ==
    IF j.waiting_time % aging_interval = 0
    THEN [j EXCEPT !.priority = IF j.priority - 1 > 0 THEN j.priority - 1 ELSE 0]
    ELSE j

\* Its own with-block on self.lock: called directly, or from inside tick().
apply_priority_aging(t) ==
    /\ pc[t] \in {"idle", "tick_aging"}
    /\ pc[t] = "idle" => ~Driven(t)
    /\ IF pc[t] = "idle" THEN Spend(t, 1) ELSE UNCHANGED calls
    /\ lock = NoOwner
    /\ LET sorted == _sort_queue(MapSeq(queue, AgeJob))
       IN /\ queue' = sorted
          /\ history' = _log_event(history, "aging", NoneId, sorted, NoExtra)
    /\ lock' = NoOwner
    /\ IF pc[t] = "idle"
       THEN pc' = pc
       ELSE pc' = [pc EXCEPT ![t] = "tick_expire"]
    /\ UNCHANGED ret
    /\ UNCHANGED <<_shutdown, current_time, wall_clock, jobs, results, entry>>
    /\ Observe(t)
    /\ UNCHANGED variant_vars
    /\ UNCHANGED <<config, events>>

\* ---------------------------------------------------- remove_expired_jobs
IsExpired(j) == j.waiting_time > expiry_time

\* The queue as the loop has left it after looking at its first n jobs:
\* an expired job is marked in place, the list itself is replaced only
\* after the loop.
MarkedUpTo(q, n) ==
    [i \in 1..Len(q) |->
        IF i <= n /\ IsExpired(q[i]) THEN [q[i] EXCEPT !.status = "Expired"] ELSE q[i]]

RECURSIVE ExpireLog(_, _, _)
ExpireLog(h, q, n) ==
    IF n = 0 THEN h
    ELSE LET before == ExpireLog(h, q, n - 1)
         IN IF IsExpired(q[n])
            THEN _log_event(before, "expire", q[n].job_id, MarkedUpTo(q, n), NoExtra)
            ELSE before

expired_jobs(q) == SelectSeq(MarkedUpTo(q, Len(q)), LAMBDA j : j.status = "Expired")

remaining_jobs(q) == SelectSeq(q, LAMBDA j : ~IsExpired(j))

\* Its own with-block on self.lock: called directly, or from inside tick(),
\* which then logs its "tick" entry and leaves its own with-block.
remove_expired_jobs(t) ==
    /\ pc[t] \in {"idle", "tick_expire"}
    /\ pc[t] = "idle" => ~Driven(t)
    /\ IF pc[t] = "idle" THEN Spend(t, 1) ELSE UNCHANGED calls
    /\ lock = NoOwner
    /\ LET expired == expired_jobs(queue)
           remaining == remaining_jobs(queue)
           logged == ExpireLog(history, queue, Len(queue))
       IN /\ queue' = remaining
          /\ IF pc[t] = "idle"
             THEN /\ history' = logged
                  /\ ret' = [ret EXCEPT ![t] = [op |-> "remove_expired_jobs",
                                                value |-> expired]]
                  /\ UNCHANGED events
             ELSE /\ history' = _log_event(logged, "tick", NoneId, remaining,
                                    [current_time |-> current_time,
                                     expired_jobs |-> MapSeq(expired, LAMBDA j : j.job_id)])
                  /\ UNCHANGED ret
                  /\ TickHandled(t)
    /\ lock' = NoOwner
    /\ pc' = [pc EXCEPT ![t] = "idle"]
    /\ UNCHANGED <<_shutdown, current_time, wall_clock, jobs, results, entry>>
    /\ Observe(t)
    /\ UNCHANGED variant_vars
    /\ UNCHANGED config

\* --------------------------------------- handle_simultaneous_submissions
\* The call itself takes no lock: it runs enqueue_job once per entry and
\* then calls _log_event outside any with-block. Every entry of the batch
\* counts as a call in the run's budget.
\* _handle_batch_submit passes the event's jobs on (an event without jobs
\* makes no call).
BatchSizes(t) ==
    IF Driven(t) THEN {Len(Head(events).jobs)} ELSE 0..MaxBatch

BatchInputs(t, n) ==
    IF Driven(t) THEN {MapSeq(Head(events).jobs, JobArgs)} ELSE Batches(n)

handle_simultaneous_submissions(t) ==
    /\ pc[t] = "idle"
    /\ MayCall(t, "batch_submit")
    /\ \E n \in BatchSizes(t) :
          /\ Spend(t, n + 1)
          /\ \E batch \in BatchInputs(t, n) : jobs' = [jobs EXCEPT ![t] = batch]
    /\ results' = [results EXCEPT ![t] = [success |-> 0, failed |-> 0]]
    /\ pc' = [pc EXCEPT ![t] = "batch"]
    /\ UNCHANGED <<queue, history, lock, _shutdown, current_time, wall_clock,
                   ret, entry>>
    /\ Observe(t)
    /\ UNCHANGED variant_vars
    /\ UNCHANGED <<config, events>>

batch_enqueue(t) ==
    /\ pc[t] = "batch"
    /\ jobs[t] # <<>>
    /\ \E result \in BOOLEAN :
          LET job == Head(jobs[t])
          IN /\ enqueue_body(job.user_id, job.job_id, job.priority, result)
             /\ results' = [results EXCEPT ![t] =
                              IF result THEN [@ EXCEPT !.success = @ + 1]
                              ELSE [@ EXCEPT !.failed = @ + 1]]
             /\ pc' = IF result THEN notify_all(pc) ELSE pc
    /\ jobs' = [jobs EXCEPT ![t] = Tail(@)]
    /\ UNCHANGED <<lock, _shutdown, current_time, ret, entry, calls>>
    /\ Observe(t)
    /\ UNCHANGED variant_vars
    /\ UNCHANGED <<config, events>>

\* _log_event("batch_submit", ...) reads the clock and the queue without
\* the lock ...
batch_log(t) ==
    /\ pc[t] = "batch"
    /\ jobs[t] = <<>>
    /\ entry' = [entry EXCEPT ![t] = LogEntry("batch_submit", NoneId, queue, results[t])]
    /\ pc' = [pc EXCEPT ![t] = "batch_append"]
    /\ UNCHANGED <<queue, history, lock, _shutdown, current_time, wall_clock,
                   ret, jobs, results, calls>>
    /\ Observe(t)
    /\ UNCHANGED variant_vars
    /\ UNCHANGED <<config, events>>

\* ... and appends the entry it built.
batch_append(t) ==
    /\ pc[t] = "batch_append"
    /\ history' = Append(history, entry[t])
    /\ entry' = [entry EXCEPT ![t] = NoReturn]
    /\ ret' = [ret EXCEPT ![t] = [op |-> "handle_simultaneous_submissions",
                                  value |-> results[t]]]
    /\ results' = [results EXCEPT ![t] = [success |-> 0, failed |-> 0]]
    /\ pc' = [pc EXCEPT ![t] = "idle"]
    /\ UNCHANGED <<queue, lock, _shutdown, current_time, wall_clock,
                   jobs, calls>>
    /\ Observe(t)
    /\ UNCHANGED variant_vars
    /\ Handled(t)
    /\ UNCHANGED config

\* ---------------------------------------------- show_status, get_history
\* What show_status returns: the clock, the size, the capacity, the ticks
\* to the next aging and, when asked for and the queue is not empty, the
\* jobs' descriptions.
status(detailed) ==
    [time |-> current_time, size |-> Len(queue), capacity |-> capacity,
     next_aging |-> aging_interval - (current_time % aging_interval),
     listing |-> IF detailed /\ queue # <<>> THEN MapSeq(queue, JobStr) ELSE <<>>]

\* show_status reads under the lock and changes nothing.
show_status(t) ==
    /\ pc[t] = "idle"
    /\ lock = NoOwner
    /\ UNCHANGED vars

\* get_history returns self.history.copy(), without the lock.
get_history(t) ==
    /\ pc[t] = "idle"
    /\ UNCHANGED vars

\* --------------------------------------------------------------- shutdown
\* Mutant of shutdown: the queue is cleared as well.
shutdown_clears_queue(t) ==
    /\ Calling(t)
    /\ ~Driven(t)
    /\ lock = NoOwner
    /\ _shutdown' = TRUE
    /\ queue' = <<>>
    /\ pc' = notify_all(pc)
    /\ UNCHANGED <<history, lock, current_time, wall_clock,
                   ret, jobs, results, entry>>
    /\ Observe(t)
    /\ UNCHANGED variant_vars
    /\ UNCHANGED <<config, events>>

shutdown(t) ==
    /\ Calling(t)
    /\ ~Driven(t)
    /\ lock = NoOwner
    /\ _shutdown' = TRUE
    /\ pc' = notify_all(pc)
    /\ UNCHANGED <<queue, history, lock, current_time, wall_clock,
                   ret, jobs, results, entry>>
    /\ Observe(t)
    /\ UNCHANGED variant_vars
    /\ UNCHANGED <<config, events>>

\* ------------------------------------------------------------------ Next
Step(t) ==
    \/ enqueue_job(t)
    \/ dequeue_job(t)
    \/ _handle_print(t)
    \/ tick(t)
    \/ apply_priority_aging(t)
    \/ remove_expired_jobs(t)
    \/ handle_simultaneous_submissions(t)
    \/ batch_enqueue(t)
    \/ batch_log(t)
    \/ batch_append(t)
    \/ show_status(t)
    \/ get_history(t)
    \/ shutdown(t)

Next == \E t \in Threads : Step(t)

Spec == Init /\ [][Next]_vars

\* A thread inside a call goes on with it whenever it can: the scheduler
\* runs every runnable thread. Whether a new call is made is up to the
\* caller, and run_simulation makes the call of its next event.
Continue(t) == (pc[t] # "idle" \/ Driven(t)) /\ Step(t)

FairSpec == Spec /\ \A t \in Threads : WF_vars(Continue(t))

\* --------------------------- src/PrintQueueManager.py: PrintQueueManager
\* The variant is driven by one caller, call after call; it shares nothing
\* with the manager above.
Variant_PrintJob(user_id, job_id, priority, arrival_time) ==
    [user_id |-> user_id, job_id |-> job_id, priority |-> priority,
     arrival_time |-> arrival_time, waiting_time |-> 0]

\* The live jobs, front to rear, without the None entries.
LiveJobs(q) == SelectSeq(CircularQueue_status(q), LAMBDA job : job # Empty)

\* self.queue.enqueue(job) for each job of a list, in order.
RECURSIVE EnqueueEach(_, _)
EnqueueEach(q, list) ==
    IF list = <<>> THEN q
    ELSE EnqueueEach(CircularQueue_enqueue(q, Head(list)).q, Tail(list))

\* job_id is "job-<job_counter>"; the counter moves on a rejection too.
Variant_enqueue_job ==
    /\ job_counter < MaxJobs
    /\ \E user_id \in UserIds, priority \in {Priority.LOW, Priority.MEDIUM, Priority.HIGH} :
          LET job_id == job_counter
              job == Variant_PrintJob(user_id, job_id, priority, time_elapsed)
              done == CircularQueue_enqueue(circular, job_id)
          IN /\ job_counter' = job_counter + 1
             /\ IF done.raised
                THEN /\ variant_ret' = [op |-> "enqueue_job", value |-> FALSE]
                     /\ UNCHANGED <<circular, job_objects>>
                ELSE /\ variant_ret' = [op |-> "enqueue_job", value |-> TRUE]
                     /\ circular' = done.q
                     /\ job_objects' = (job_id :> job) @@ job_objects
    /\ UNCHANGED time_elapsed
    /\ UNCHANGED manager_vars

\* key=lambda j: (j.priority.value, -j.waiting_time), compared as tuples.
KeyGreater(a, b) ==
    \/ a.priority > b.priority
    \/ a.priority = b.priority /\ (0 - a.waiting_time) > (0 - b.waiting_time)

\* max(...): the first of the jobs with the greatest key.
RECURSIVE max(_, _)
max(list, objects) ==
    IF Len(list) = 1 THEN list[1]
    ELSE LET best == max(SubSeq(list, 1, Len(list) - 1), objects)
             last == list[Len(list)]
         IN IF KeyGreater(objects[last], objects[best]) THEN last ELSE best

\* The while loop: dequeue until the queue is empty or the job with the
\* wanted job_id comes out.
RECURSIVE DequeueUntil(_, _, _, _)
DequeueUntil(q, wanted, dequeued_jobs, objects) ==
    LET out == CircularQueue_dequeue(q)
    IN IF out.job = Empty
       THEN [target_job |-> Empty, q |-> out.q, dequeued_jobs |-> dequeued_jobs]
       ELSE IF objects[out.job].job_id = objects[wanted].job_id
            THEN [target_job |-> out.job, q |-> out.q, dequeued_jobs |-> dequeued_jobs]
            ELSE DequeueUntil(out.q, wanted, Append(dequeued_jobs, out.job), objects)

Variant_print_job ==
    /\ LET listed == CircularQueue_status(circular)
       IN IF listed = <<>>
          THEN /\ variant_ret' = [op |-> "print_job", value |-> <<>>]
               /\ UNCHANGED circular
          ELSE LET highest_priority_job == max(LiveJobs(circular), job_objects)
                   loop == DequeueUntil(circular, highest_priority_job, <<>>, job_objects)
               IN /\ circular' = EnqueueEach(loop.q, loop.dequeued_jobs)
                  /\ variant_ret' =
                        [op |-> "print_job",
                         value |-> IF loop.target_job = Empty THEN <<>>
                                   ELSE <<job_objects[loop.target_job]>>]
    /\ UNCHANGED <<job_objects, time_elapsed, job_counter>>
    /\ UNCHANGED manager_vars

\* The objects after apply_priority_aging at time now.
Aged(q, objects, now) ==
    [n \in DOMAIN objects |->
        IF /\ \E i \in 1..Len(LiveJobs(q)) : LiveJobs(q)[i] = n
           /\ now > 0
           /\ now % VariantConfig.aging_interval = 0
           /\ objects[n].priority # Priority.HIGH
        THEN [objects[n] EXCEPT !.priority = @ + 1]
        ELSE objects[n]]

Variant_apply_priority_aging ==
    /\ job_objects' = Aged(circular, job_objects, time_elapsed)
    /\ variant_ret' = NoReturn
    /\ UNCHANGED <<circular, time_elapsed, job_counter>>
    /\ UNCHANGED manager_vars

Variant_expired_jobs(q, objects, now) ==
    SelectSeq(LiveJobs(q),
              LAMBDA job : now - objects[job].arrival_time >= VariantConfig.expiry_time)

Variant_remaining_jobs(q, objects, now) ==
    SelectSeq(CircularQueue_status(q),
              LAMBDA job : \A i \in 1..Len(Variant_expired_jobs(q, objects, now)) :
                              Variant_expired_jobs(q, objects, now)[i] # job)

\* The queue is rebuilt from the remaining jobs in a new CircularQueue.
Rebuilt(q, objects, now) ==
    EnqueueEach(CircularQueue(q.capacity), Variant_remaining_jobs(q, objects, now))

Variant_remove_expired_jobs ==
    /\ circular' = Rebuilt(circular, job_objects, time_elapsed)
    /\ variant_ret' =
          [op |-> "remove_expired_jobs",
           value |-> [i \in 1..Len(Variant_expired_jobs(circular, job_objects, time_elapsed)) |->
                        job_objects[Variant_expired_jobs(circular, job_objects, time_elapsed)[i]]]]
    /\ UNCHANGED <<job_objects, time_elapsed, job_counter>>
    /\ UNCHANGED manager_vars

\* tick(): the time moves on, every live job's waiting_time is set from
\* its arrival_time, then apply_priority_aging and remove_expired_jobs.
Variant_tick ==
    /\ time_elapsed < MaxTime
    /\ LET now == time_elapsed + 1
           waited == [n \in DOMAIN job_objects |->
                        IF \E i \in 1..Len(LiveJobs(circular)) : LiveJobs(circular)[i] = n
                        THEN [job_objects[n] EXCEPT
                                 !.waiting_time = now - job_objects[n].arrival_time]
                        ELSE job_objects[n]]
           aged == Aged(circular, waited, now)
       IN /\ time_elapsed' = now
          /\ job_objects' = aged
          /\ circular' = Rebuilt(circular, aged, now)
    /\ variant_ret' = NoReturn
    /\ UNCHANGED job_counter
    /\ UNCHANGED manager_vars

VariantNext ==
    \/ Variant_enqueue_job
    \/ Variant_print_job
    \/ Variant_apply_priority_aging
    \/ Variant_remove_expired_jobs
    \/ Variant_tick

VariantSpec == Init /\ [][VariantNext]_vars

\* ---------------------------------------------------------------- claims
InTick(t) == pc[t] \in {"tick_aging", "tick_expire"}

Suspended(t) == pc[t] \in {"wait_api", "wait_print", "woken_api", "woken_print"}

\* The step in which thread t's dequeue_job returns a job.
DequeueReturns(t) == dequeue_job(t) /\ queue' # queue

Dequeued(t) == ret'[t].value[1]

C2_TickRunsToCompletion ==
    \A t \in Threads : InTick(t) => ENABLED Continue(t)

\* C3: in every reachable state the number of active jobs is at most the
\* configured capacity.
C3_CapacityInvariant == Len(queue) <= capacity

\* The queue is full while a batch, one entry of which was accepted, still
\* has an entry to submit.
C3_Witness ==
    /\ Len(queue) = capacity
    /\ \E t \in Threads : pc[t] = "batch" /\ jobs[t] # <<>> /\ results[t].success > 0

\* C4: enqueue_job on a queue that holds capacity jobs returns False and
\* leaves the active jobs, every job's fields, the clock and the event log
\* as they were.
C4_FullEnqueueRejected ==
    [][\A t \in Threads :
          (Len(queue) >= capacity /\ enqueue_job(t)) =>
              /\ ret'[t] = [op |-> "enqueue_job", value |-> FALSE]
              /\ UNCHANGED <<queue, current_time, history>>]_vars

\* An enqueue has been refused on a full queue whose jobs are all in the log.
C4_Witness ==
    /\ \E t \in Threads : ret[t] = [op |-> "enqueue_job", value |-> FALSE]
    /\ Len(queue) = capacity
    /\ Len(history) >= capacity

\* C5: a successful dequeue_job returns a job whose priority is the least
\* among the active jobs, with status Printing, and takes exactly that job
\* out of the queue, the others keeping their fields and their order.
C5_DequeueTakesMinimum ==
    [][\A t \in Threads :
          DequeueReturns(t) =>
              /\ ret'[t].op = "dequeue_job"
              /\ Len(ret'[t].value) = 1
              /\ Dequeued(t).status = "Printing"
              /\ \A i \in 1..Len(queue) : Dequeued(t).priority <= queue[i].priority
              /\ Len(queue') = Len(queue) - 1
              /\ \E k \in 1..Len(queue) :
                    /\ queue[k] = [Dequeued(t) EXCEPT !.status = "Pending"]
                    /\ queue' = SubSeq(queue, 1, k - 1) \o SubSeq(queue, k + 1, Len(queue))]_vars

\* dequeue_job has returned a job enqueued after, and more urgent than, a
\* job that is still waiting.
C5_Witness ==
    \E t \in Threads :
        /\ ret[t].op = "dequeue_job"
        /\ pc[t] = "idle"
        /\ ret[t].value # <<>>
        /\ queue # <<>>
        /\ ret[t].value[1].status = "Printing"
        /\ ret[t].value[1].timestamp > queue[1].timestamp
        /\ ret[t].value[1].priority < queue[1].priority

\* The job whose timestamp is k, as the queue holds it.
Active(k) == \E i \in 1..Len(queue) : queue[i].timestamp = k

ActiveJob(k) == queue[CHOOSE i \in 1..Len(queue) : queue[i].timestamp = k]

\* C6: of two active jobs of equal priority the one enqueued first is
\* dequeued first: dequeue_job never returns a job while a job of the same
\* priority that was enqueued before it stays in the queue.
C6_EqualPriorityFifo ==
    [][\A t \in Threads :
          DequeueReturns(t) =>
              \A i \in 1..Len(queue') :
                  ~ /\ queue'[i].priority = Dequeued(t).priority
                    /\ queue'[i].timestamp < Dequeued(t).timestamp]_vars

\* C7: a tick that has brought a job's waiting_time to a positive multiple
\* of aging_interval lowers that job's priority by one step (p > 0 becomes
\* p - 1), whatever the clock was when the job was enqueued.
AgingDue(k, p) ==
    /\ \E t \in Threads : InTick(t)
    /\ Active(k)
    /\ ActiveJob(k).priority = p
    /\ ActiveJob(k).waiting_time > 0
    /\ ActiveJob(k).waiting_time % aging_interval = 0

C7_TickAgesDueJobs ==
    \A k \in 1..MaxCalls, p \in 1..MaxPriority :
        AgingDue(k, p) ~> (Active(k) /\ ActiveJob(k).priority = p - 1)

\* C8: a job whose waiting_time a tick has brought above expiry_time is
\* removed from the active jobs by that tick.
C8_ExpiredJobsRemoved ==
    \A k \in 1..MaxCalls :
        (Active(k) /\ ActiveJob(k).waiting_time > expiry_time) ~> ~Active(k)

\* C9: the driver's 'print' on an empty queue that is not shut down returns
\* empty at once: the thread that runs it is never suspended in wait().
C9_PrintNeverSuspends ==
    \A t \in Threads : pc[t] # "wait_print"

\* C10: a consumer does not stay suspended in dequeue_job for ever while the
\* queue holds a job: it comes to return, or the queue is emptied by others.
C10_NoLostWakeup ==
    \A t \in Threads :
        (Suspended(t) /\ queue # <<>>) ~> (~Suspended(t) \/ queue = <<>>)

\* C11: a consumer that is suspended in dequeue_job when shutdown() has been
\* called comes to return an empty result, whether or not a job was ever
\* enqueued.
C11_ShutdownWakesWaiters ==
    \A t \in Threads :
        (Suspended(t) /\ _shutdown) ~>
            (pc[t] = "idle" /\ ret[t] = [op |-> "dequeue_job", value |-> <<>>])

\* C12: once shutdown() has been called the flag stays set; a dequeue_job
\* that runs with the flag set returns empty, does not suspend and leaves
\* the queue and the log alone, jobs queued or not; and a further
\* shutdown() changes nothing.
C12_ShutdownIsFinal ==
    [][/\ _shutdown => _shutdown'
       /\ \A t \in Threads :
             (dequeue_job(t) /\ _shutdown) =>
                 /\ pc'[t] = "idle"
                 /\ ret'[t] = [op |-> "dequeue_job", value |-> <<>>]
                 /\ UNCHANGED <<queue, history>>
       /\ \A t \in Threads :
             (shutdown(t) /\ _shutdown) =>
                 UNCHANGED <<queue, history, _shutdown, current_time, pc, ret>>]_vars

\* A thread that filled the queue by itself has then called dequeue_job
\* after the shutdown and got nothing, the jobs staying queued.
C12_Witness ==
    /\ _shutdown
    /\ Len(queue) = capacity
    /\ \E t \in Threads :
          /\ pc[t] = "idle"
          /\ ret[t] = [op |-> "dequeue_job", value |-> <<>>]
          /\ \A u \in Threads \ {t} : pc[u] = "idle" /\ ret[u] = NoReturn

Min(a, b) == IF a <= b THEN a ELSE b

\* The queue after enqueue_job has taken every entry of js, in order.
RECURSIVE EnqueueAll(_, _)
EnqueueAll(q, js) ==
    IF js = <<>> THEN q
    ELSE LET j == Head(js)
         IN EnqueueAll(_sort_queue(Append(q, PrintJob(j.priority, 0, j.user_id, j.job_id))),
                       Tail(js))

\* C13: a batch of n entries submitted when the queue has k free slots, no
\* other thread changing the queue meanwhile, counts success = min(n, k) and
\* failed = n - min(n, k), and the queue then holds what it held plus the
\* first min(n, k) entries, in submission order.
C13_BatchCounts ==
    \A t \in Threads :
        (pc[t] = "batch_append" /\ submitted[t].alone) =>
            LET n == Len(submitted[t].jobs)
                k == capacity - Len(submitted[t].queue)
                m == Min(n, k)
            IN /\ results[t] = [success |-> m, failed |-> n - m]
               /\ results[t].success + results[t].failed = n
               /\ MapSeq(queue, JobStr) =
                      MapSeq(EnqueueAll(submitted[t].queue,
                                        SubSeq(submitted[t].jobs, 1, m)), JobStr)

\* A batch of two entries that found one free slot is about to return.
C13_Witness ==
    \E t \in Threads :
        /\ pc[t] = "batch_append"
        /\ submitted[t].alone
        /\ Len(submitted[t].jobs) = 2
        /\ Len(submitted[t].queue) = capacity - 1
        /\ results[t].failed = 1

\* C14: in every reachable state no two active jobs have the same job id
\* (an enqueue_job with the id of a queued job is refused).
C14_UniqueJobIds ==
    \A i, j \in 1..Len(queue) :
        i # j => queue[i].job_id # queue[j].job_id

\* C15: an enqueue with an invalid priority never reaches the store: no
\* active job has a negative priority.
C15_InvalidPriorityRejected ==
    \A i \in 1..Len(queue) : queue[i].priority \notin InvalidPriorities

\* C16: no step lowers an active job's priority below the floor 0: a job
\* whose priority is 0 or more keeps a priority of 0 or more, and a job at
\* priority 0 stays at 0, aged or not.
C16_PriorityFloor ==
    [][\A i \in 1..Len(queue), j \in 1..Len(queue') :
          queue[i].timestamp = queue'[j].timestamp =>
              /\ queue[i].priority >= 0 => queue'[j].priority >= 0
              /\ queue[i].priority = 0 => queue'[j].priority = 0]_vars

\* An aging pass has just gone over a queue whose jobs are at priority 0
\* and has left it as the enqueue before it had.
C16_Witness ==
    /\ Len(history) >= 2
    /\ history[Len(history)].event = "aging"
    /\ history[Len(history) - 1].event = "enqueue"
    /\ history[Len(history) - 1].queue_state = history[Len(history)].queue_state
    /\ queue # <<>>
    /\ \A i \in 1..Len(queue) : queue[i].priority = 0

\* The job ids of the log's 'dequeue' entries, in order.
Printed == MapSeq(SelectSeq(history, LAMBDA e : e.event = "dequeue"), LAMBDA e : e.job_id)

\* C17: the simulation of sample_events on the manager built with capacity 5,
\* aging_interval 3 and expiry_time 10 runs to its end, where doc2 and then
\* doc4 have been dequeued, two jobs are queued and the clock is at 8.
C17_FullSimulation ==
    (config = TestConfig /\ events = sample_events) ~>
        /\ events = <<>>
        /\ Printed = <<"doc2", "doc4">>
        /\ Len(queue) = 2
        /\ current_time = 8

\* C18: a tick adds exactly one to the clock: the tick that has taken the
\* clock to c comes to return, the clock then still being c, so that n
\* ticks in a row take the clock from its initial value to that plus n.
C18_TicksAdvanceClock ==
    \A t \in Threads, c \in 1..MaxCalls :
        (InTick(t) /\ current_time = c) ~> (~InTick(t) /\ current_time = c)

\* The batch of thread u is between its first enqueue attempt and the
\* append of its 'batch_submit' entry.
BatchUnderWay(u) ==
    /\ InBatch(u)
    /\ results[u].success + results[u].failed > 0

\* C19: a batch submission is atomic: while a thread's batch is between its
\* first enqueue attempt and the append of its log entry, no step of another
\* thread changes the queue, the clock or the log.
C19_BatchIsAtomic ==
    [][\A t, u \in Threads :
          (t # u /\ BatchUnderWay(u) /\ Step(t)) =>
              UNCHANGED <<queue, current_time, history>>]_vars

\* The jobs a thread's last call handed to its caller.
Held(r) ==
    IF r.op \in {"dequeue_job", "remove_expired_jobs"} THEN r.value ELSE <<>>

InQueue(q, j) == \E i \in 1..Len(q) : q[i].timestamp = j.timestamp

\* C20: every active job is Pending; a job comes into the queue only as a
\* new job; a job leaves it as Printing (by dequeue_job) or as Expired (by
\* remove_expired_jobs), and outside the queue its status changes only from
\* Printing to Completed, by the driver's print.
C20_JobLifecycle ==
    [][/\ \A i \in 1..Len(queue') :
             /\ queue'[i].status = "Pending"
             /\ \/ InQueue(queue, queue'[i])
                \/ queue'[i].timestamp = wall_clock' /\ wall_clock' > wall_clock
       /\ \A t \in Threads :
             \A k \in 1..Len(Held(ret'[t])) :
                 LET j == Held(ret'[t])[k]
                 IN /\ ~InQueue(queue', j)
                    /\ \/ \E i \in 1..Len(queue) :
                             /\ queue[i].timestamp = j.timestamp
                             /\ queue[i].status = "Pending"
                             /\ \/ j.status = "Printing" /\ dequeue_job(t)
                                \/ j.status = "Expired" /\ remove_expired_jobs(t)
                       \/ \E m \in 1..Len(Held(ret[t])) :
                             LET old == Held(ret[t])[m]
                             IN /\ old.timestamp = j.timestamp
                                /\ \/ old.status = j.status
                                   \/ /\ old.status = "Printing"
                                      /\ j.status = "Completed"
                                      /\ _handle_print(t)]_vars

\* The driver's print has completed a job while another job is still
\* waiting in the queue.
C20_Witness ==
    /\ queue # <<>>
    /\ \E t \in Threads :
          /\ pc[t] = "idle"
          /\ ret[t].op = "dequeue_job"
          /\ ret[t].value # <<>>
          /\ ret[t].value[1].status = "Completed"

\* C21: a job enters the queue with waiting_time 0; while it is queued its
\* waiting_time never decreases; and once it has been handed to a caller
\* (dequeued or expired) its waiting_time stays what it was when it left the
\* queue, whatever ticks follow.
C21_WaitingTimeMonotone ==
    [][/\ \A j \in 1..Len(queue') :
             \/ \E i \in 1..Len(queue) :
                   /\ queue[i].timestamp = queue'[j].timestamp
                   /\ queue'[j].waiting_time >= queue[i].waiting_time
             \/ ~InQueue(queue, queue'[j]) /\ queue'[j].waiting_time = 0
       /\ \A t \in Threads :
             \A k \in 1..Len(Held(ret'[t])) :
                 LET j == Held(ret'[t])[k]
                 IN \/ \E i \in 1..Len(queue) :
                          /\ queue[i].timestamp = j.timestamp
                          /\ queue[i].waiting_time = j.waiting_time
                    \/ \E m \in 1..Len(Held(ret[t])) :
                          /\ Held(ret[t])[m].timestamp = j.timestamp
                          /\ Held(ret[t])[m].waiting_time = j.waiting_time]_vars

\* A tick has run after a job was dequeued: the job that stayed queued has
\* waited one tick, the dequeued one none.
C21_Witness ==
    /\ queue # <<>>
    /\ queue[1].waiting_time = 1
    /\ \E t \in Threads :
          /\ ret[t].op = "dequeue_job"
          /\ ret[t].value # <<>>
          /\ ret[t].value[1].waiting_time = 0

\* The log has a 'tick' entry for the tick that took the clock to c.
TickLogged(c) ==
    \E i \in 1..Len(history) :
        /\ history[i].event = "tick"
        /\ history[i].current_time = c
        /\ history[i].timestamp = c
        /\ history[i].queue_size = Len(history[i].queue_state)

\* C22: every tick logs one 'tick' entry that carries the clock after the
\* increment: the tick that has taken the clock to c comes to append it.
C22_TickIsLogged ==
    \A c \in 1..MaxCalls :
        ((\E t \in Threads : InTick(t)) /\ current_time = c) ~> TickLogged(c)

\* C23: the event log is append-only: a step leaves the entries the log has
\* as and where they are and at most adds entries after them; show_status
\* and get_history change neither the log, the queue nor the clock.
C23_LogAppendOnly ==
    [][/\ Len(history') >= Len(history)
       /\ SubSeq(history', 1, Len(history)) = history
       /\ \A t \in Threads :
             (show_status(t) \/ get_history(t)) =>
                 UNCHANGED <<history, queue, current_time>>]_vars

\* The log holds entries of an enqueue, a dequeue and an aging pass, the
\* first of them still the first.
C23_Witness ==
    /\ Len(history) >= 3
    /\ history[1].event = "enqueue"
    /\ \E i, j \in 2..Len(history) :
          /\ i < j
          /\ history[i].event = "dequeue"
          /\ history[j].event = "aging"

\* The threads whose last call has handed them job j, after the step.
HoldersAfter(j) ==
    {t \in Threads :
        \E k \in 1..Len(Held(ret'[t])) : Held(ret'[t])[k].timestamp = j.timestamp}

HeldBefore(j) ==
    \E t \in Threads :
        \E k \in 1..Len(Held(ret[t])) : Held(ret[t])[k].timestamp = j.timestamp

\* C24: no job is lost or duplicated, whatever the interleaving. A job an
\* enqueue accepts is in the queue, once; a job leaves the queue only by
\* being handed to exactly one caller, of dequeue_job or of
\* remove_expired_jobs, who did not hold it before; and a job that has left
\* the queue does not come back.
C24_JobConservation ==
    [][/\ \A i, j \in 1..Len(queue') :
             i # j => queue'[i].timestamp # queue'[j].timestamp
       /\ \A i \in 1..Len(queue') :
             \/ InQueue(queue, queue'[i])
             \/ /\ queue'[i].timestamp = wall_clock'
                /\ wall_clock' > wall_clock
                /\ ~HeldBefore(queue'[i])
       /\ \A t \in Threads :
             (ret'[t] = [op |-> "enqueue_job", value |-> TRUE] /\ wall_clock' # wall_clock) =>
                 \E i \in 1..Len(queue') : queue'[i].timestamp = wall_clock'
       /\ \A i \in 1..Len(queue) :
             InQueue(queue', queue[i]) \/
                 /\ Cardinality(HoldersAfter(queue[i])) = 1
                 /\ ~HeldBefore(queue[i])
                 /\ \A t \in HoldersAfter(queue[i]) :
                       /\ dequeue_job(t) \/ remove_expired_jobs(t)
                       /\ Cardinality({k \in 1..Len(Held(ret'[t])) :
                              Held(ret'[t])[k].timestamp = queue[i].timestamp}) = 1
       /\ \A t \in Threads :
             \A k \in 1..Len(Held(ret'[t])) :
                 \/ InQueue(queue, Held(ret'[t])[k]) /\ ~InQueue(queue', Held(ret'[t])[k])
                 \/ /\ ~InQueue(queue', Held(ret'[t])[k])
                    /\ \E m \in 1..Len(Held(ret[t])) :
                          Held(ret[t])[m].timestamp = Held(ret'[t])[k].timestamp]_vars

\* Two consumers have each been handed a job, and not the same one.
C24_Witness ==
    /\ queue = <<>>
    /\ wall_clock = 2
    /\ \E t, u \in Threads :
          /\ t # u
          /\ ret[t].op = "dequeue_job" /\ ret[t].value # <<>>
          /\ ret[u].op = "dequeue_job" /\ ret[u].value # <<>>
          /\ ret[t].value[1].timestamp # ret[u].value[1].timestamp

\* C25: in every interleaving the log's timestamps never decrease in log
\* order, and an entry describes the queue of the instant it is appended:
\* whenever a step appends to the log, the entry it puts last has the size
\* and the ordered job descriptions of the queue the step leaves, the
\* 'batch_submit' and 'expire' entries included.
C25_LogDescribesQueue ==
    [][/\ \A i, j \in 1..Len(history') :
             i < j => history'[i].timestamp <= history'[j].timestamp
       /\ Len(history') > Len(history) =>
             /\ history'[Len(history')].queue_size = Len(queue')
             /\ history'[Len(history')].queue_state = MapSeq(queue', JobStr)]_vars

\* C26: in the circular-queue variant print_job, called on a queue that is
\* not empty, returns a job of the queue of the highest priority there is
\* and, among the jobs of that priority, one that has waited longest; the
\* other jobs, and only they, are in the queue afterwards, each once.
C26_PrintJobTakesHighestOldest ==
    [][(Variant_print_job /\ LiveJobs(circular) # <<>>) =>
          LET before == LiveJobs(circular)
              after == LiveJobs(circular')
              got == variant_ret'.value
          IN /\ got # <<>>
             /\ \E i \in 1..Len(before) : job_objects[before[i]] = got[1]
             /\ \A i \in 1..Len(before) :
                   /\ job_objects[before[i]].priority <= got[1].priority
                   /\ job_objects[before[i]].priority = got[1].priority =>
                         job_objects[before[i]].waiting_time <= got[1].waiting_time
             /\ Len(after) = Len(before) - 1
             /\ \A i \in 1..Len(before) :
                   before[i] # got[1].job_id =>
                       Cardinality({k \in 1..Len(after) : after[k] = before[i]}) = 1]_vars

====
